---- MODULE Spec2Model ----
(***************************************************************************)
(* A model of the pkombi parser-combinator core (src/src/lib.rs).          *)
(*                                                                         *)
(* A parser is a syntax tree; Parse(p, input) computes what the boxed      *)
(* closure of p returns on the slice input.  A result carries              *)
(*   st    : "ok" (Some(..)), "fail" (None) or "hang" (the closure never   *)
(*           returns: a many/many1 loop whose child succeeds without       *)
(*           advancing the slice is run again on the same slice),          *)
(*   out   : the output value,                                             *)
(*   rem   : the Option<&[I]> remainder,                                   *)
(*   calls : the invocations the combinator made of its direct children,   *)
(*           in order (child index and the slice it was given).            *)
(***************************************************************************)
EXTENDS Integers, Sequences, FiniteSets, TLC

\* Longest input slice explored.
MaxLen == 3

\* The characters inputs are made of.
Alphabet == {"c", "d", "1"}

Inputs == UNION {[1..n -> Alphabet] : n \in 0..MaxLen}

\* char::is_ascii_digit
AsciiDigits == {"0", "1", "2", "3", "4", "5", "6", "7", "8", "9"}
is_ascii_digit(ch) == ch \in AsciiDigits

\* A predicate handed to satisfy is the set of characters it accepts.
IsLetter == {"c", "d"}

(***************************************************************************)
(* Values: outputs, remainders, results.                                   *)
(***************************************************************************)
Chr(ch)     == <<"chr", <<ch>>>>
Pair(a, b)  == <<"pair", a, b>>
SomeO(o)    == <<"some", o>>
NoneO       == <<"none">>
Vec(es)     == <<"vec", es>>
Str(t)      == <<"str", t>>

NoneRem     == [some |-> FALSE, r |-> <<>>]
SomeRem(r)  == [some |-> TRUE, r |-> r]

Call(i, inp) == [i |-> i, inp |-> inp]

Success(o, rem, calls) == [st |-> "ok", out |-> o, rem |-> rem, calls |-> calls]
Failure(calls)         == [st |-> "fail", out |-> <<>>, rem |-> NoneRem, calls |-> calls]
Hang                   == [st |-> "hang", out |-> <<>>, rem |-> NoneRem, calls |-> <<>>]
NoResult               == [st |-> "none", out |-> <<>>, rem |-> NoneRem, calls |-> <<>>]

(***************************************************************************)
(* Parser syntax trees.                                                    *)
(***************************************************************************)
Node(op, ch, pred, kids) == [op |-> op, c |-> ch, pred |-> pred, kids |-> kids]

PChar(ch)        == Node("char", ch, {}, <<>>)
PDigit           == Node("digit", "", {}, <<>>)
PSatisfy(f)      == Node("satisfy", "", f, <<>>)
PMaybe(p)        == Node("maybe", "", {}, <<p>>)
POr(p1, p2)      == Node("or", "", {}, <<p1, p2>>)
PAnd(p1, p2)     == Node("and", "", {}, <<p1, p2>>)
PThenMaybe(p1, p2) == Node("then_maybe", "", {}, <<p1, p2>>)
PMany(p)         == Node("many", "", {}, <<p>>)
PMany1(p)        == Node("many1", "", {}, <<p>>)
PChoice(ps)      == Node("choice", "", {}, ps)
PIntoString(p)   == Node("into_string", "", {}, <<p>>)

\* Output types, as the Rust signatures fix them.
TChar       == <<"char">>
TString     == <<"string">>
TOpt(t)     == <<"opt", t>>
TVec(t)     == <<"vec", t>>
TPair(a, b) == <<"pair", a, b>>

RECURSIVE OutType(_)
OutType(p) ==
  CASE p.op \in {"char", "digit", "satisfy"} -> TChar
    [] p.op = "maybe"       -> TOpt(OutType(p.kids[1]))
    [] p.op = "or"          -> OutType(p.kids[1])
    [] p.op = "and"         -> TPair(OutType(p.kids[1]), OutType(p.kids[2]))
    [] p.op = "then_maybe"  -> TPair(OutType(p.kids[1]), TOpt(OutType(p.kids[2])))
    [] p.op = "many"        -> TVec(OutType(p.kids[1]))
    [] p.op = "many1"       -> TOpt(TVec(OutType(p.kids[1])))
    [] p.op = "choice"      -> IF p.kids = <<>> THEN TChar ELSE OutType(p.kids[1])
    [] OTHER                -> TString

\* The types that implement CollectChars.
RECURSIVE CollectChars(_)
CollectChars(t) ==
  CASE t[1] = "char" -> TRUE
    [] t[1] = "vec"  -> t[2] = TChar
    [] t[1] = "opt"  -> CollectChars(t[2])
    [] t[1] = "pair" -> CollectChars(t[2]) /\ CollectChars(t[3])
    [] OTHER         -> FALSE

(***************************************************************************)
(* CollectChars::into_string on output values.                             *)
(***************************************************************************)
RECURSIVE into_string(_)
into_string(o) ==
  CASE o[1] = "chr"  -> o[2]
    [] o[1] = "vec"  -> [i \in 1..Len(o[2]) |-> o[2][i][2][1]]
    [] o[1] = "some" -> into_string(o[2])
    [] o[1] = "none" -> <<>>
    [] o[1] = "pair" -> into_string(o[2]) \o into_string(o[3])

(***************************************************************************)
(* Primitives.                                                             *)
(***************************************************************************)
\* <[T]>::split_at_checked
split_at_checked(input, mid) ==
  IF mid > Len(input)
  THEN [some |-> FALSE, p |-> <<>>, r |-> <<>>]
  ELSE [some |-> TRUE, p |-> SubSeq(input, 1, mid),
        r |-> SubSeq(input, mid + 1, Len(input))]

SatisfyAlwaysSome(f, input) ==
  LET sp == split_at_checked(input, 1) IN
  IF sp.some /\ sp.p # <<>> /\ sp.p[1] \in f
  THEN Success(Chr(sp.p[1]), SomeRem(sp.r), <<>>)
  ELSE Failure(<<>>)

Satisfy(f, input) ==
  LET sp == split_at_checked(input, 1) IN
  IF sp.some /\ sp.p # <<>> /\ sp.p[1] \in f /\ sp.r # <<>>
  THEN Success(Chr(sp.p[1]), SomeRem(sp.r), <<>>)
  ELSE IF sp.some /\ sp.p # <<>> /\ sp.p[1] \in f /\ sp.r = <<>>
  THEN Success(Chr(sp.p[1]), NoneRem, <<>>)
  ELSE Failure(<<>>)

CharAlwaysSome(ch, input) ==
  LET sp == split_at_checked(input, 1) IN
  IF sp.some /\ sp.p # <<>> /\ sp.p[1] = ch
  THEN Success(Chr(sp.p[1]), SomeRem(sp.r), <<>>)
  ELSE Failure(<<>>)

Char(ch, input) ==
  LET sp == split_at_checked(input, 1) IN
  IF sp.some /\ sp.p # <<>> /\ sp.p[1] = ch /\ sp.r # <<>>
  THEN Success(Chr(sp.p[1]), SomeRem(sp.r), <<>>)
  ELSE IF sp.some /\ sp.p # <<>> /\ sp.p[1] = ch /\ sp.r = <<>>
  THEN Success(Chr(sp.p[1]), NoneRem, <<>>)
  ELSE Failure(<<>>)

Digit(input) ==
  LET sp == split_at_checked(input, 1) IN
  IF sp.some /\ sp.p # <<>> /\ is_ascii_digit(sp.p[1]) /\ sp.r # <<>>
  THEN Success(Chr(sp.p[1]), SomeRem(sp.r), <<>>)
  ELSE IF sp.some /\ sp.p # <<>> /\ is_ascii_digit(sp.p[1]) /\ sp.r = <<>>
  THEN Success(Chr(sp.p[1]), NoneRem, <<>>)
  ELSE Failure(<<>>)

(***************************************************************************)
(* Combinators.  Parse is Parser::parse, the call of the boxed closure.    *)
(***************************************************************************)
RECURSIVE Parse(_, _)

MaybeRewinds(p, input) ==
  LET a == Parse(p, input)
      calls == <<Call(1, input)>> IN
  CASE a.st = "ok"   -> Success(SomeO(a.out), SomeRem(input), calls)
    [] a.st = "fail" -> Success(NoneO, SomeRem(input), calls)
    [] OTHER         -> Hang

Maybe(p, input) ==
  LET a == Parse(p, input)
      calls == <<Call(1, input)>> IN
  CASE a.st = "ok" /\ a.rem.some  -> Success(SomeO(a.out), SomeRem(a.rem.r), calls)
    [] a.st = "ok" /\ ~a.rem.some -> Success(SomeO(a.out), NoneRem, calls)
    [] a.st = "fail"              -> Success(NoneO, SomeRem(input), calls)
    [] OTHER                      -> Hang

Or(p1, p2, input) ==
  LET a == Parse(p1, input) IN
  CASE a.st = "ok"   -> Success(a.out, a.rem, <<Call(1, input)>>)
    [] a.st = "fail" ->
         LET b == Parse(p2, input) IN
         IF b.st = "hang" THEN Hang
         ELSE [b EXCEPT !.calls = <<Call(1, input), Call(2, input)>>]
    [] OTHER         -> Hang

And(p1, p2, input) ==
  LET a == Parse(p1, input) IN
  CASE a.st = "ok" /\ a.rem.some ->
         LET b == Parse(p2, a.rem.r)
             calls == <<Call(1, input), Call(2, a.rem.r)>> IN
         CASE b.st = "ok"   -> Success(Pair(a.out, b.out), b.rem, calls)
           [] b.st = "fail" -> Failure(calls)
           [] OTHER         -> Hang
    [] a.st = "ok" /\ ~a.rem.some -> Failure(<<Call(1, input)>>)
    [] a.st = "fail"              -> Failure(<<Call(1, input)>>)
    [] OTHER                      -> Hang

ThenMaybeKeepsInput(p1, p2, input) ==
  LET a == Parse(p1, input) IN
  CASE a.st = "ok" /\ a.rem.some ->
         LET b == Parse(p2, a.rem.r)
             calls == <<Call(1, input), Call(2, a.rem.r)>> IN
         CASE b.st = "ok"   -> Success(Pair(a.out, SomeO(b.out)), b.rem, calls)
           [] b.st = "fail" -> Success(Pair(a.out, NoneO), SomeRem(input), calls)
           [] OTHER         -> Hang
    [] a.st = "ok" /\ ~a.rem.some ->
         Success(Pair(a.out, NoneO), NoneRem, <<Call(1, input)>>)
    [] a.st = "fail"              -> Failure(<<Call(1, input)>>)
    [] OTHER                      -> Hang

ThenMaybe(p1, p2, input) ==
  LET a == Parse(p1, input) IN
  CASE a.st = "ok" /\ a.rem.some ->
         LET b == Parse(p2, a.rem.r)
             calls == <<Call(1, input), Call(2, a.rem.r)>> IN
         CASE b.st = "ok"   -> Success(Pair(a.out, SomeO(b.out)), b.rem, calls)
           [] b.st = "fail" -> Success(Pair(a.out, NoneO), SomeRem(a.rem.r), calls)
           [] OTHER         -> Hang
    [] a.st = "ok" /\ ~a.rem.some ->
         Success(Pair(a.out, NoneO), NoneRem, <<Call(1, input)>>)
    [] a.st = "fail"              -> Failure(<<Call(1, input)>>)
    [] OTHER                      -> Hang

\* The while-let loop of many, from the state (input, elements) on.  A child
\* that succeeds without shortening the slice is called again on the same
\* slice for ever: the closure does not return.  The child's result a is
\* bound once per iteration, as `while let Some((p, r)) = self.0(input)` does.
RECURSIVE ManyLoop(_, _, _, _)
ManyLoop(p, input, elements, calls) ==
  CHOOSE res \in {
    LET cs == Append(calls, Call(1, input)) IN
    CASE a.st = "ok" /\ a.rem.some ->
           IF Len(a.rem.r) >= Len(input) THEN Hang
           ELSE ManyLoop(p, a.rem.r, Append(elements, a.out), cs)
      [] a.st = "ok" /\ ~a.rem.some ->
           Success(Vec(Append(elements, a.out)), NoneRem, cs)
      [] a.st = "fail" -> Success(Vec(elements), SomeRem(input), cs)
      [] OTHER         -> Hang
    : a \in {Parse(p, input)}} : TRUE

ManyStopsAfterOne(p, input) ==
  LET a == Parse(p, input)
      cs == <<Call(1, input)>> IN
  CASE a.st = "ok"   -> Success(Vec(<<a.out>>), a.rem, cs)
    [] a.st = "fail" -> Success(Vec(<<>>), SomeRem(input), cs)
    [] OTHER         -> Hang

Many(p, input) == ManyLoop(p, input, <<>>, <<>>)

RECURSIVE Many1Loop(_, _, _, _)
Many1Loop(p, input, elements, calls) ==
  CHOOSE res \in {
    LET cs == Append(calls, Call(1, input)) IN
    CASE a.st = "ok" /\ a.rem.some ->
           IF Len(a.rem.r) >= Len(input) THEN Hang
           ELSE Many1Loop(p, a.rem.r, Append(elements, a.out), cs)
      [] a.st = "ok" /\ ~a.rem.some ->
           Success(SomeO(Vec(Append(elements, a.out))), NoneRem, cs)
      [] a.st = "fail" ->
           IF elements = <<>> THEN Failure(cs)
           ELSE Success(SomeO(Vec(elements)), SomeRem(input), cs)
      [] OTHER         -> Hang
    : a \in {Parse(p, input)}} : TRUE

Many1NeverFails(p, input) ==
  LET m == ManyLoop(p, input, <<>>, <<>>) IN
  IF m.st = "ok" THEN Success(SomeO(m.out), m.rem, m.calls) ELSE m

Many1(p, input) == Many1Loop(p, input, <<>>, <<>>)

\* The for loop of choice, from candidate i on.
RECURSIVE ChoiceLoop(_, _, _, _)
ChoiceLoop(possibilities, i, input, calls) ==
  IF i > Len(possibilities) THEN Failure(calls)
  ELSE LET a == Parse(possibilities[i], input)
           cs == Append(calls, Call(i, input)) IN
       CASE a.st = "ok"   -> Success(a.out, a.rem, cs)
         [] a.st = "fail" -> ChoiceLoop(possibilities, i + 1, input, cs)
         [] OTHER         -> Hang

\* A choice that keeps the LAST success instead of returning the first.
RECURSIVE ChoiceLastLoop(_, _, _, _, _)
ChoiceLastLoop(possibilities, i, input, calls, best) ==
  IF i > Len(possibilities)
  THEN IF best.st = "ok" THEN Success(best.out, best.rem, calls) ELSE Failure(calls)
  ELSE LET a == Parse(possibilities[i], input)
           cs == Append(calls, Call(i, input)) IN
       CASE a.st = "ok"   -> ChoiceLastLoop(possibilities, i + 1, input, cs, a)
         [] a.st = "fail" -> ChoiceLastLoop(possibilities, i + 1, input, cs, best)
         [] OTHER         -> Hang

ChoiceLast(possibilities, input) ==
  ChoiceLastLoop(possibilities, 1, input, <<>>, NoResult)

Choice(possibilities, input) == ChoiceLoop(possibilities, 1, input, <<>>)

\* Parser::into_string = map(|o| o.into_string())
IntoStringReversed(p, input) ==
  LET a == Parse(p, input) IN
  CASE a.st = "ok" ->
         LET t == into_string(a.out) IN
         Success(Str([i \in 1..Len(t) |-> t[Len(t) + 1 - i]]), a.rem, <<Call(1, input)>>)
    [] a.st = "fail" -> Failure(<<Call(1, input)>>)
    [] OTHER         -> Hang

IntoString(p, input) ==
  LET a == Parse(p, input) IN
  CASE a.st = "ok"   -> Success(Str(into_string(a.out)), a.rem, <<Call(1, input)>>)
    [] a.st = "fail" -> Failure(<<Call(1, input)>>)
    [] OTHER         -> Hang

Parse(p, input) ==
  CASE p.op = "satisfy"     -> Satisfy(p.pred, input)
    [] p.op = "char"        -> Char(p.c, input)
    [] p.op = "digit"       -> Digit(input)
    [] p.op = "maybe"       -> Maybe(p.kids[1], input)
    [] p.op = "or"          -> Or(p.kids[1], p.kids[2], input)
    [] p.op = "and"         -> And(p.kids[1], p.kids[2], input)
    [] p.op = "then_maybe"  -> ThenMaybe(p.kids[1], p.kids[2], input)
    [] p.op = "many"        -> Many(p.kids[1], input)
    [] p.op = "many1"       -> Many1(p.kids[1], input)
    [] p.op = "choice"      -> Choice(p.kids, input)
    [] p.op = "into_string" -> IntoString(p.kids[1], input)

(***************************************************************************)
(* The parsers explored.                                                   *)
(***************************************************************************)
Prims == {PChar("c"), PChar("d"), PDigit, PSatisfy(IsLetter)}

Unary(S) == {PMaybe(p) : p \in S} \cup {PMany(p) : p \in S} \cup {PMany1(p) : p \in S}

Binary(S, T) ==
  {PAnd(p1, p2) : p1 \in S, p2 \in T}
    \cup {PThenMaybe(p1, p2) : p1 \in S, p2 \in T}
    \cup {POr(p[1], p[2]) : p \in {q \in S \X T : OutType(q[1]) = OutType(q[2])}}

Lists(S) ==
  {<<>>} \cup {<<p>> : p \in S}
    \cup {q \in S \X S : OutType(q[1]) = OutType(q[2])}

Small == Prims \cup Unary(Prims)

\* Children of the parser under test.
Sub == Small \cup Binary({PChar("c"), PSatisfy(IsLetter)}, {PChar("d"), PDigit})

Core ==
  Sub \cup Unary(Sub) \cup Binary(Sub, Small) \cup Binary(Small, Sub)
    \cup {PChoice(ps) : ps \in Lists(Sub) \cup (Prims \X Prims \X Prims)}

Parsers == Core \cup {PIntoString(p) : p \in {q \in Core : CollectChars(OutType(q))}}

(***************************************************************************)
(* State: a parser, the slice it is called on, and the call's progress.    *)
(***************************************************************************)
VARIABLES parser, input, pc, result, cur, elements, nOk, nFail

vars == <<parser, input, pc, result, cur, elements, nOk, nFail>>
loopvars == <<cur, elements, nOk, nFail>>

Init ==
  /\ parser \in Parsers
  /\ input \in Inputs
  /\ pc = "ready"
  /\ result = NoResult
  /\ cur = input
  /\ elements = <<>>
  /\ nOk = 0
  /\ nFail = 0

\* The call either returns r, or (r.st = "hang") spins for ever in a loop
\* whose state no longer changes.
Return(r) ==
  /\ pc = "ready"
  /\ result' = IF r.st = "hang" THEN result ELSE r
  /\ pc' = IF r.st = "hang" THEN "diverged" ELSE "done"
  /\ UNCHANGED <<parser, input, loopvars>>

RunSatisfy   == parser.op = "satisfy" /\ Return(Satisfy(parser.pred, input))
RunChar      == parser.op = "char" /\ Return(Char(parser.c, input))
RunDigit     == parser.op = "digit" /\ Return(Digit(input))
RunMaybe     == parser.op = "maybe" /\ Return(Maybe(parser.kids[1], input))
RunOr        == parser.op = "or" /\ Return(Or(parser.kids[1], parser.kids[2], input))
RunAnd       == parser.op = "and" /\ Return(And(parser.kids[1], parser.kids[2], input))
RunThenMaybe == parser.op = "then_maybe"
                  /\ Return(ThenMaybe(parser.kids[1], parser.kids[2], input))
RunMany      == parser.op = "many" /\ Return(Many(parser.kids[1], input))
RunMany1     == parser.op = "many1" /\ Return(Many1(parser.kids[1], input))
RunChoice    == parser.op = "choice" /\ Return(Choice(parser.kids, input))
RunIntoString == parser.op = "into_string" /\ Return(IntoString(parser.kids[1], input))

Next ==
  \/ RunSatisfy
  \/ RunChar
  \/ RunDigit
  \/ RunMaybe
  \/ RunOr
  \/ RunAnd
  \/ RunThenMaybe
  \/ RunMany
  \/ RunMany1
  \/ RunChoice
  \/ RunIntoString

Spec == Init /\ [][Next]_vars

(***************************************************************************)
(* The many / many1 loops, one invocation of the child per step.           *)
(***************************************************************************)
\* No more successful iterations than this are explored.
IterCap == MaxLen + 1

AdvanceStays(slice, r) == slice

\* `Some(r) => input = r`
Advance(slice, r) == r

LoopInit == Init /\ parser.op \in {"many", "many1"}

ManyIter ==
  /\ parser.op = "many"
  /\ pc \in {"ready", "loop"}
  /\ nOk < IterCap
  /\ \E a \in {Parse(parser.kids[1], cur)} :
       /\ a.st = "ok"
       /\ elements' = Append(elements, a.out)
       /\ nOk' = nOk + 1
       /\ IF a.rem.some
          THEN /\ cur' = Advance(cur, a.rem.r)
               /\ pc' = "loop"
               /\ result' = result
          ELSE /\ cur' = cur
               /\ pc' = "done"
               /\ result' = Success(Vec(elements'), NoneRem, <<>>)
  /\ UNCHANGED <<parser, input, nFail>>

ManyExit ==
  /\ parser.op = "many"
  /\ pc \in {"ready", "loop"}
  /\ Parse(parser.kids[1], cur).st = "fail"
  /\ nFail' = nFail + 1
  /\ pc' = "done"
  /\ result' = Success(Vec(elements), SomeRem(cur), <<>>)
  /\ UNCHANGED <<parser, input, cur, elements, nOk>>

Many1Iter ==
  /\ parser.op = "many1"
  /\ pc \in {"ready", "loop"}
  /\ nOk < IterCap
  /\ \E a \in {Parse(parser.kids[1], cur)} :
       /\ a.st = "ok"
       /\ elements' = Append(elements, a.out)
       /\ nOk' = nOk + 1
       /\ IF a.rem.some
          THEN /\ cur' = Advance(cur, a.rem.r)
               /\ pc' = "loop"
               /\ result' = result
          ELSE /\ cur' = cur
               /\ pc' = "done"
               /\ result' = Success(SomeO(Vec(elements')), NoneRem, <<>>)
  /\ UNCHANGED <<parser, input, nFail>>

Many1Exit ==
  /\ parser.op = "many1"
  /\ pc \in {"ready", "loop"}
  /\ Parse(parser.kids[1], cur).st = "fail"
  /\ nFail' = nFail + 1
  /\ pc' = "done"
  /\ result' = IF elements = <<>> THEN Failure(<<>>)
               ELSE Success(SomeO(Vec(elements)), SomeRem(cur), <<>>)
  /\ UNCHANGED <<parser, input, cur, elements, nOk>>

LoopNext ==
  \/ ManyIter
  \/ ManyExit
  \/ Many1Iter
  \/ Many1Exit

\* The call runs to completion without suspension: a step that can be taken
\* is taken.
LoopSpec == LoopInit /\ [][LoopNext]_vars /\ WF_vars(LoopNext)

(***************************************************************************)
(* Vocabulary of the properties.                                           *)
(***************************************************************************)
Done == pc = "done"
Diverged == pc = "diverged"
K1 == parser.kids[1]
K2 == parser.kids[2]

RemSeq(rem) == IF rem.some THEN rem.r ELSE <<>>

IsSuffix(r, s) ==
  Len(r) <= Len(s) /\ r = SubSeq(s, Len(s) - Len(r) + 1, Len(s))

\* p consumes at least one element whenever it succeeds on a slice the loop
\* over s can hand it (a suffix of s).
Consuming(p, s) ==
  \A k \in 0..Len(s) :
    LET t == SubSeq(s, k + 1, Len(s))
        a == Parse(p, t) IN
    a.st = "ok" => Len(RemSeq(a.rem)) < Len(t)

TypeOK ==
  /\ pc \in {"ready", "loop", "done", "diverged"}
  /\ result.st \in {"none", "ok", "fail"}
  /\ Done <=> result.st # "none"

\* The stepwise loop returns what the closure returns.
LoopAgrees ==
  Done => LET r == Parse(parser, input) IN
          result.st = r.st /\ result.out = r.out /\ result.rem = r.rem

(***************************************************************************)
(* Properties.                                                             *)
(***************************************************************************)

\* C1: p1.and(p2) succeeds iff p1 succeeds and then p2 succeeds on p1's
\* remainder, p2 being attempted even when p1 consumed the whole input (the
\* remainder then being empty); on success the output is (o1, o2) and the
\* remainder is p2's; otherwise the result is failure.
C1_AndAlwaysAttemptsSecond ==
  (Done /\ parser.op = "and") =>
    LET a == Parse(K1, input)
        b == Parse(K2, RemSeq(a.rem)) IN
    (a.st # "hang" /\ (a.st = "ok" => b.st # "hang")) =>
      IF a.st = "ok" /\ b.st = "ok"
      THEN result.st = "ok" /\ result.out = Pair(a.out, b.out) /\ result.rem = b.rem
      ELSE result.st = "fail"

\* C2: p1.then_maybe(p2) fails iff p1 fails.  After p1 succeeds with (o1, Some(r)),
\* p2 is run on r: if it succeeds with (o2, r2) the result is ((o1, Some(o2)), r2),
\* if it fails the result is ((o1, None), Some(r)).  After p1 succeeds with the
\* exhausted marker, p2 is not invoked and the result is ((o1, None), None).
C2_ThenMaybe ==
  (Done /\ parser.op = "then_maybe") =>
    LET a == Parse(K1, input) IN
    /\ result.st = "fail" <=> a.st = "fail"
    /\ (a.st = "ok" /\ a.rem.some) =>
         LET b == Parse(K2, a.rem.r) IN
         /\ result.calls = <<Call(1, input), Call(2, a.rem.r)>>
         /\ result.st = "ok"
         /\ b.st = "ok" => /\ result.out = Pair(a.out, SomeO(b.out))
                           /\ result.rem = b.rem
         /\ b.st = "fail" => /\ result.out = Pair(a.out, NoneO)
                             /\ result.rem = SomeRem(a.rem.r)
    /\ (a.st = "ok" /\ ~a.rem.some) =>
         /\ \A j \in 1..Len(result.calls) : result.calls[j].i # 2
         /\ result.st = "ok"
         /\ result.out = Pair(a.out, NoneO)
         /\ result.rem = NoneRem

\* p2 consumed part of p1's remainder before failing, and the remainder
\* reported is p1's.
C2_Witness ==
  /\ Done /\ parser.op = "then_maybe" /\ K2.op = "and"
  /\ result.st = "ok" /\ result.out[3] = NoneO
  /\ result.rem.some /\ Len(result.rem.r) = 2
  /\ Parse(K2.kids[1], result.rem.r).st = "ok"

\* C3: for p consuming at least one element per success, p.many() always
\* returns a success: the outputs of the longest run of consecutive successful
\* applications of p from the input on, in order, with as remainder the slice
\* on which p first failed, or the exhausted marker when the last successful
\* application reported it.
C3_ManyLongestRun ==
  (parser.op = "many" /\ Consuming(K1, input)) =>
    /\ ~Diverged
    /\ Done =>
         /\ result.st = "ok"
         /\ LET es == result.out[2]
                n == Len(es)
                Pos[k \in 0..n] ==
                  IF k = 0 THEN input ELSE RemSeq(Parse(K1, Pos[k - 1]).rem) IN
            /\ \A k \in 1..n :
                 LET a == Parse(K1, Pos[k - 1]) IN
                 a.st = "ok" /\ a.out = es[k] /\ (k < n => a.rem.some)
            /\ IF n > 0 /\ ~Parse(K1, Pos[n - 1]).rem.some
               THEN result.rem = NoneRem
               ELSE Parse(K1, Pos[n]).st = "fail" /\ result.rem = SomeRem(Pos[n])

\* A run of two applications stopped by a failure with input left over.
C3_Witness ==
  /\ Done /\ parser.op = "many" /\ Consuming(K1, input)
  /\ Len(result.out[2]) = 2 /\ result.rem.some /\ result.rem.r # <<>>

\* The empty input: zero elements.
C3_WitnessEmpty ==
  Done /\ parser.op = "many" /\ Consuming(K1, input) /\ input = <<>> /\ result.out[2] = <<>>

\* C4: p.many1() fails iff p.many() collects zero elements; when p.many()
\* collects at least one, p.many1() succeeds with the same elements in the same
\* order and the same remainder.
C4_Many1VersusMany ==
  parser.op = "many1" =>
    LET m == Many(K1, input) IN
    /\ Diverged <=> (pc # "ready" /\ m.st = "hang")
    /\ Done =>
         /\ m.st = "ok"
         /\ result.st = "fail" <=> m.out[2] = <<>>
         /\ m.out[2] # <<>> => /\ result.st = "ok"
                               /\ result.out = SomeO(Vec(m.out[2]))
                               /\ result.rem = m.rem

C4_Witness ==
  /\ Done /\ parser.op = "many1" /\ result.st = "ok"
  /\ Len(result.out[2][2]) = 2 /\ result.rem.some

C4_WitnessFail == Done /\ parser.op = "many1" /\ result.st = "fail" /\ input # <<>>

\* C5: p.maybe() never fails: if p succeeds with (o, r) the result is
\* (Some(o), r); if p fails the result is (None, Some(input)) with the input
\* as given.  Hence p.maybe().maybe() always succeeds, with output Some(Some(o))
\* or Some(None).
C5_MaybeNeverFails ==
  parser.op = "maybe" =>
    LET a == Parse(K1, input) IN
    /\ Diverged <=> (pc # "ready" /\ a.st = "hang")
    /\ Done =>
         /\ result.st = "ok"
         /\ a.st = "ok" => result.out = SomeO(a.out) /\ result.rem = a.rem
         /\ a.st = "fail" => result.out = NoneO /\ result.rem = SomeRem(input)
         /\ K1.op = "maybe" =>
              /\ result.out[1] = "some"
              /\ result.out[2][1] \in {"some", "none"}
              /\ result.out[2][1] = "some" <=> Parse(K1.kids[1], input).st = "ok"

C5_Witness ==
  /\ Done /\ parser.op = "maybe" /\ K1.op = "maybe"
  /\ result.out = SomeO(NoneO) /\ result.rem = SomeRem(input) /\ input # <<>>

C5_WitnessSome ==
  /\ Done /\ parser.op = "maybe" /\ K1.op = "maybe"
  /\ result.out[2][1] = "some" /\ result.rem.some /\ result.rem.r # input

\* C6: choice([p1..pn]) invokes the candidates in list order, each on the
\* original input, returns the result of the first that succeeds without
\* invoking a later one, and fails iff all fail (the empty list always
\* fails); p1.or(p2) behaves as choice([p1, p2]) and does not invoke p2 when
\* p1 succeeds.
C6_ChoiceFirstSuccess ==
  /\ (Done /\ parser.op = "choice") =>
       LET ps == parser.kids
           n == Len(ps)
           oks == {i \in 1..n : Parse(ps[i], input).st = "ok"} IN
       IF oks = {}
       THEN /\ result.st = "fail"
            /\ result.calls = [i \in 1..n |-> Call(i, input)]
       ELSE LET k == CHOOSE i \in oks : \A j \in oks : i <= j
                a == Parse(ps[k], input) IN
            /\ result.st = "ok"
            /\ result.out = a.out
            /\ result.rem = a.rem
            /\ result.calls = [i \in 1..k |-> Call(i, input)]
  /\ (Done /\ parser.op = "or") =>
       /\ result = Choice(parser.kids, input)
       /\ Parse(K1, input).st = "ok" =>
            \A j \in 1..Len(result.calls) : result.calls[j].i # 2

\* The second of three candidates is the first to succeed; the third would
\* succeed too, with another result, and is not invoked.
C6_Witness ==
  /\ Done /\ parser.op = "choice" /\ Len(parser.kids) = 3
  /\ result.st = "ok" /\ Len(result.calls) = 2
  /\ Parse(parser.kids[3], input).st = "ok"

C6_WitnessOr ==
  /\ Done /\ parser.op = "or" /\ Len(result.calls) = 1
  /\ LET b == Parse(K2, input) IN b.st = "ok" /\ b.out # result.out

\* C7: satisfy(pred), char(c) and digit() fail on the empty input and when
\* the predicate rejects the first element; otherwise they succeed with the
\* first element as output and the rest of the input as remainder, reported
\* as the exhausted marker exactly when the input has length one.  char(c)
\* is satisfy of equality with c, digit() satisfy of the ASCII-digit
\* predicate.
C7_Primitives ==
  (Done /\ parser.op \in {"satisfy", "char", "digit"}) =>
    LET accepts(ch) == CASE parser.op = "satisfy" -> ch \in parser.pred
                         [] parser.op = "char"    -> ch = parser.c
                         [] parser.op = "digit"   -> ch \in AsciiDigits IN
    /\ IF input = <<>> \/ ~accepts(input[1])
       THEN result.st = "fail"
       ELSE /\ result.st = "ok"
            /\ result.out = Chr(input[1])
            /\ result.rem = IF Len(input) = 1 THEN NoneRem ELSE SomeRem(Tail(input))
    /\ parser.op = "char" => result = Satisfy({parser.c}, input)
    /\ parser.op = "digit" => result = Satisfy(AsciiDigits, input)

C7_Witness ==
  /\ Done /\ parser.op = "digit" /\ Len(input) = 1
  /\ result.st = "ok" /\ result.rem = NoneRem

C7_WitnessRest ==
  /\ Done /\ parser.op = "satisfy" /\ Len(input) = 3
  /\ result.st = "ok" /\ result.rem = SomeRem(Tail(input))

\* C8: for p consuming at least one element per success, the loops of
\* p.many() and p.many1() terminate: a successful iteration hands a strictly
\* shorter slice to the next one, p succeeds at most len(input) times and
\* fails at most once before the combinator returns.
C8_LoopsTerminate ==
  /\ [](Consuming(K1, input) => nOk <= Len(input) /\ nFail <= 1)
  /\ [][(Consuming(K1, input) /\ pc' = "loop") => Len(cur') < Len(cur)]_vars
  /\ (Consuming(K1, input) ~> Done)

C8_Witness ==
  /\ Done /\ Consuming(K1, input) /\ parser.op = "many1"
  /\ nOk = 2 /\ nFail = 1 /\ Len(input) = 3

C8_WitnessFull ==
  Done /\ Consuming(K1, input) /\ parser.op = "many" /\ nOk = Len(input) /\ nOk >= 2 /\ nFail = 0

\* C9: for a parser built from char, digit and satisfy with and, then_maybe,
\* maybe, or, choice, many and many1: when parse succeeds with output o and
\* remainder r, r is a suffix of the input and into_string(o) followed by r
\* (the exhausted marker read as empty) is the input.
C9_OutputIsConsumedPrefix ==
  (Done /\ parser.op = "into_string" /\ result.st = "ok") =>
    /\ IsSuffix(RemSeq(result.rem), input)
    /\ result.out[2] \o RemSeq(result.rem) = input
    /\ result.out[2] = into_string(Parse(K1, input).out)

C9_Witness ==
  /\ Done /\ parser.op = "into_string" /\ K1.op = "then_maybe"
  /\ result.st = "ok" /\ result.out[2] = <<"c", "d">> /\ result.rem = SomeRem(<<"1">>)

\* C10 as stated: on every input, the empty one included, a successful result
\* carries as remainder the exhausted marker or a non-empty suffix of the
\* input, never Some of the empty slice.
C10_NeverSomeEmpty ==
  (Done /\ result.st = "ok") =>
    \/ result.rem = NoneRem
    \/ result.rem.some /\ result.rem.r # <<>> /\ IsSuffix(result.rem.r, input)

\* C10 amended: on every non-empty input, a successful result carries as
\* remainder the exhausted marker or a non-empty suffix of the input.
C10_NeverSomeEmptyOnNonEmptyInput ==
  (Done /\ result.st = "ok" /\ input # <<>>) =>
    \/ result.rem = NoneRem
    \/ result.rem.some /\ result.rem.r # <<>> /\ IsSuffix(result.rem.r, input)

C10_Witness ==
  /\ Done /\ result.st = "ok" /\ input # <<>>
  /\ parser.op = "and" /\ K2.op = "many" /\ result.rem = NoneRem

C10_WitnessSome ==
  /\ Done /\ result.st = "ok" /\ Len(input) = 3
  /\ parser.op = "maybe" /\ result.out = NoneO /\ result.rem = SomeRem(input)
====
